---- MODULE Spec2Model ----
(***************************************************************************)
(* A model of src/src/chains.py: the request pipelines of UnstructuredRAG  *)
(* (ingest_docs, llm_chain, rag_chain, rag_chain_with_multiturn,           *)
(* document_search), the StructuredResponse answer object and the          *)
(* failure handlers.  One behaviour of Spec is one request.                *)
(*                                                                         *)
(* Python strings are sequences of text fragments: concatenation is \o,    *)
(* `x in s` is membership among the fragments, "" is <<>>.                 *)
(***************************************************************************)
EXTENDS Integers, Sequences, FiniteSets, TLC

\* ------------------------------------------------------------------ bounds

\* MAX_REFLECTION_LOOP is set to a value in 0..MaxLoops, or left at its default
MaxLoops == 2
\* chat_history / messages hold at most MaxHist messages
MaxHist == 1
\* in Spec a request asks the vector store for at most MaxDocs documents
MaxDocs == 1
\* in RankSpec reranker_top_k and vdb_top_k are at most MaxTopK
MaxTopK == 3
\* in ConcSpec MaxTasks requests run concurrently
MaxTasks == 2
\* in HistSpec, chat_history / messages hold at most MaxLongHist messages
MaxLongHist == 3
\* in HistSpec, CONVERSATION_HISTORY is set to a value in 0..MaxTurns
MaxTurns == 1

\* ------------------------------------------------------------- text helpers

Range(s) == {s[i] : i \in 1..Len(s)}

\* Python `frag in text`
Contains(text, frag) == frag \in Range(text)

\* Python sep.join(parts), parts a sequence of strings
RECURSIVE Join(_, _)
Join(sep, parts) ==
    IF parts = <<>> THEN <<>>
    ELSE IF Len(parts) = 1 THEN parts[1]
    ELSE parts[1] \o sep \o Join(sep, Tail(parts))

\* Python text.replace('"', "'") on the fragments that hold double quotes
ReplaceQuotes(text) ==
    [i \in 1..Len(text) |-> IF text[i] = "\"\"" THEN "''" ELSE text[i]]

\* ---------------------------------------------------------------- failures

\* The exception classes the handlers tell apart.  ConnectTimeout is a
\* subclass of requests.exceptions.ConnectionError; APIError and ValueError
\* are plain Exceptions.
ExcKinds == {"ConnectTimeout", "ConnectionError", "Exception"}

\* The substrings of str(e) the handlers look for, in a fixed order
MarkerSeq ==
    <<"[403] Forbidden", "Invalid UAM response", "[404] Not Found", "HTTPConnectionPool">>

Markers == Range(MarkerSeq)

MsgOf(S) == SelectSeq(MarkerSeq, LAMBDA m : m \in S)

\* What a collaborator (embedding service, vector store, reranker, language
\* model, file loader) can raise: any kind with any message
Failures == [kind : ExcKinds, msg : {MsgOf(S) : S \in SUBSET Markers}]

\* one failure of each kind, with a message holding no marker
PlainFailures == [kind : ExcKinds, msg : {MsgOf({})}]

NoExc == [kind |-> "none", msg |-> <<>>]

\* ----------------------------------------------------- StructuredResponse

DefaultTitle == <<"generate_vgpu_config">>

DefaultDescription ==
    <<"Generate the recommended vGPU configuration based on workload requirements and hardware specs.">>

DefaultParameters == <<"{type: object, properties: {...}, required: []}">>

\* StructuredResponse(**data): data maps keyword names to values.  The model
\* declares title, description and parameters; __init__ fills each one that
\* is missing, and pydantic drops every keyword that is not a declared field.
StructuredResponse(data) ==
    [title       |-> IF "title" \in DOMAIN data THEN data.title ELSE DefaultTitle,
     description |-> IF "description" \in DOMAIN data
                       THEN data.description ELSE DefaultDescription,
     parameters  |-> IF "parameters" \in DOMAIN data
                       THEN data.parameters ELSE DefaultParameters]

\* json.dumps(answer.model_dump(), ensure_ascii=False, indent=2)
JsonDumps(answer) == [json |-> answer]

\* str(answer) of a pydantic object
StrOf(answer) ==
    <<"title=">> \o answer.title \o <<" description=">> \o answer.description
        \o <<" parameters=">> \o answer.parameters

\* ------------------------------------------------- returned values (shapes)

\* None: the function fell off its end
RetNone == [shape |-> "None"]
\* not returned yet
RetPending == [shape |-> "pending"]
\* iter([chunk]): a one-element iterator
RetIter(chunk) == [shape |-> "iter", items |-> <<chunk>>]
\* a generator object whose body has not run yet
RetGen == [shape |-> "generator"]
\* (chunks, context_to_show)
RetPair(chunks, context) == [shape |-> "pair", chunks |-> chunks, context |-> context]
\* a document list
RetList(docs) == [shape |-> "list", docs |-> docs]
\* an exception leaves the function
RetRaise(message, code) == [shape |-> "raise", message |-> message, code |-> code]

\* ------------------------------------------------------- failure handlers

\* `"[403] Forbidden" in str(e) and "Invalid UAM response" in str(e)`
IsAuthError(e) ==
    Contains(e.msg, "[403] Forbidden") /\ Contains(e.msg, "Invalid UAM response")

\* `"[404] Not Found" in str(e)`
IsNotFound(e) == Contains(e.msg, "[404] Not Found")

\* faulty variant: the message is inspected before the kind of the failure
IngestClassifyMessageFirst(e) ==
    IF IsAuthError(e)
      THEN [message |-> <<"Authentication or permission error: Verify NVIDIA API key validity and permissions.">>,
            code |-> 403]
    ELSE IF IsNotFound(e)
      THEN [message |-> <<"API endpoint or payload is invalid. Ensure the model name is valid.">>,
            code |-> 404]
    ELSE IF e.kind = "ConnectTimeout"
      THEN [message |-> <<"Connection timed out while accessing the embedding model endpoint. Verify server availability.">>,
            code |-> 504]
    ELSE [message |-> <<"Failed to upload document. ">> \o e.msg, code |-> 500]

\* ingest_docs: the except clauses, giving the APIError that is raised
IngestClassify(e) ==
    IF e.kind = "ConnectTimeout"
      THEN [message |-> <<"Connection timed out while accessing the embedding model endpoint. Verify server availability.">>,
            code |-> 504]
    ELSE IF IsAuthError(e)
      THEN [message |-> <<"Authentication or permission error: Verify NVIDIA API key validity and permissions.">>,
            code |-> 403]
    ELSE IF IsNotFound(e)
      THEN [message |-> <<"API endpoint or payload is invalid. Ensure the model name is valid.">>,
            code |-> 404]
    ELSE [message |-> <<"Failed to upload document. ">> \o e.msg, code |-> 500]

\* An error answer as the handlers return it: iter([json.dumps(...)])
ErrorIter(data) == RetIter(JsonDumps(StructuredResponse(data)))

\* llm_chain: the except clauses.  [ret, logged]
LlmChainHandler(e) ==
    IF e.kind = "ConnectTimeout"
      THEN [ret |-> ErrorIter([description |->
                <<"Connection timed out while making a request to the NIM endpoint. Verify if the NIM server is available. Unable to generate vGPU configuration.">>]),
            logged |-> TRUE]
    ELSE IF IsAuthError(e)
      THEN [ret |-> ErrorIter([description |->
                <<"Authentication or permission error: Verify the validity and permissions of your NVIDIA API key. Unable to generate vGPU configuration.">>]),
            logged |-> TRUE]
    ELSE IF IsNotFound(e)
      THEN [ret |-> ErrorIter([description |->
                <<"Please verify the API endpoint and your payload. Ensure that the model name is valid. Unable to generate vGPU configuration.">>]),
            logged |-> TRUE]
    ELSE [ret |-> ErrorIter([description |->
                <<"Failed to generate RAG chain response. ">> \o e.msg
                    \o <<". Unable to generate vGPU configuration.">>]),
          logged |-> TRUE]

\* rag_chain and rag_chain_with_multiturn: the except clauses, which differ
\* only in two texts.  The answers are built with the keywords response and
\* sources_used.  A ConnectionError whose text lacks "HTTPConnectionPool"
\* matches the second clause, whose body then does nothing: the function
\* ends without a return statement and without a log record.
RagHandler(e, poolText, failedText) ==
    IF e.kind = "ConnectTimeout"
      THEN [ret |-> ErrorIter([response |->
                <<"Connection timed out while making a request to the NIM endpoint. Verify if the NIM server is available.">>,
                sources_used |-> TRUE]),
            logged |-> TRUE]
    ELSE IF e.kind = "ConnectionError"
      THEN IF Contains(e.msg, "HTTPConnectionPool")
             THEN [ret |-> ErrorIter([response |-> poolText, sources_used |-> TRUE]),
                   logged |-> TRUE]
             ELSE [ret |-> RetNone, logged |-> FALSE]
    ELSE IF IsAuthError(e)
      THEN [ret |-> ErrorIter([response |->
                <<"Authentication or permission error: Verify the validity and permissions of your NVIDIA API key.">>,
                sources_used |-> TRUE]),
            logged |-> TRUE]
    ELSE IF IsNotFound(e)
      THEN [ret |-> ErrorIter([response |->
                <<"Please verify the API endpoint and your payload. Ensure that the model name is valid.">>,
                sources_used |-> TRUE]),
            logged |-> TRUE]
    ELSE [ret |-> ErrorIter([response |-> failedText \o e.msg, sources_used |-> TRUE]),
          logged |-> TRUE]

RagChainHandler(e) ==
    RagHandler(e,
        <<"Connection error: Failed to connect to service. Please verify if all required services are running and accessible.">>,
        <<"Failed to generate RAG chain response. ">>)

MultiturnHandler(e) ==
    RagHandler(e,
        <<"Connection error: Failed to connect to service. Please verify if all required NIMs are running and accessible.">>,
        <<"Failed to generate RAG chain with multi-turn response. ">>)

\* APIError(message, code=400)
APIErrorDefaultCode == 400

\* document_search: `except Exception as e: raise APIError(f"Failed to search
\* documents. {str(e)}") from e`
DocumentSearchHandler(e) ==
    [ret |-> RetRaise(<<"Failed to search documents. ">> \o e.msg, APIErrorDefaultCode),
     logged |-> TRUE]


\* ------------------------------------------------------------ ReflectionCounter

\* ReflectionCounter(max_loops): the shared budget of both reflection loops
ReflectionCounter(max_loops) == [max_loops |-> max_loops, current_count |-> 0]

\* no counter: reflection is off, or the request has not reached line 387
NoCounter == [max_loops |-> -1, current_count |-> 0]

\* reflection_counter.remaining
Remaining(counter) ==
    IF counter.max_loops - counter.current_count > 0
      THEN counter.max_loops - counter.current_count ELSE 0

\* one reflection attempt: used grows by one, never past max_loops
Increment(counter) ==
    IF counter.current_count < counter.max_loops
      THEN [counter EXCEPT !.current_count = @ + 1] ELSE counter

\* ------------------------------------------------------------ inputs

Roles == {"system", "user", "assistant"}

\* the texts a history message can hold
Contents == {<<"a">>}

ChatMessage == [role : Roles, content : Contents]

RECURSIVE SeqsUpTo(_, _)
SeqsUpTo(S, n) ==
    IF n = 0 THEN {<<>>}
    ELSE LET shorter == SeqsUpTo(S, n - 1)
         IN  shorter \cup {Append(h, m) : h \in {x \in shorter : Len(x) = n - 1}, m \in S}

Histories == SeqsUpTo(ChatMessage, MaxHist)

\* the current query / search content
Queries == {<<"c">>}

\* what the query rewriter model can answer: nothing, the empty-quoted
\* placeholder in either quoting, or a standalone question
RewriteOutputs == {<<>>, <<"\"\"">>, <<"''">>, <<"standalone question">>}

\* what the language model can answer under the StructuredResponse schema
ModelAnswers ==
    {StructuredResponse([description |-> <<"model answer A">>]),
     StructuredResponse([description |-> <<"model answer B">>])}

\* int(os.environ.get("MAX_REFLECTION_LOOP", 3))
DefaultMaxReflectionLoop == 3

\* int(os.environ.get("CONVERSATION_HISTORY", 15))
DefaultConversationHistory == 15

Entries == {"ingest_docs", "llm_chain", "rag_chain", "document_search"}

\* the texts of the longer histories of HistSpec: two of them, so that an
\* exchange or a repetition of turns shows
LongContents == {<<"a">>, <<"b">>}

LongHistories == SeqsUpTo([role : Roles, content : LongContents], MaxLongHist)

\* the model family that gets the reasoning-mode directive and the primer
NemotronFamily == "llama-3.3-nemotron-super-49b"

\* str(kwargs.get("model")): no model given, or a model of the family
Models == {<<"None">>, <<"nvidia/", NemotronFamily, "-v1">>}

\* prompts.get("chat_template", "") and prompts.get("rag_template", "")
ChatTemplate == <<"chat_template">>

RagTemplate == <<"rag_template">>

\* ("user", "{question}")
QuestionMessage == [role |-> "user", content |-> <<"{question}">>]

\* ------------------------------------------------------------ query formulation

\* Python seq[start:]
SliceFrom(seq, start) ==
    LET n == Len(seq)
        from == IF start < 0
                  THEN (IF n + start > 0 THEN n + start ELSE 0)
                  ELSE (IF start < n THEN start ELSE n)
    IN  SubSeq(seq, from + 1, n)

\* history_count = int(os.environ.get("CONVERSATION_HISTORY", 15)) * 2 * -1
\* chat_history = chat_history[history_count:]
TruncateHistory(chat_history, conversation_history_env) ==
    SliceFrom(chat_history, conversation_history_env * 2 * (-1))

\* conversation_history: the (role, content) pairs of the non-system messages
ConversationHistory(chat_history) ==
    SelectSeq(chat_history, LAMBDA m : m.role # "system")

\* user_queries = [msg.content for msg in chat_history if msg.role == "user"]
UserQueries(chat_history) ==
    LET users == SelectSeq(chat_history, LAMBDA m : m.role = "user")
    IN  [i \in 1..Len(users) |-> users[i].content]

\* ". ".join([*user_queries, query])
CombinedQuery(chat_history, q) ==
    Join(<<". ">>, Append(UserQueries(chat_history), q))

\* faulty variant: only the empty text counts, the placeholder is searched for
IsEmptyRewriteLengthOnly(retriever_query) == Len(retriever_query) = 0

\* `retriever_query.replace('"', "'") == "''" or len(retriever_query) == 0`
IsEmptyRewrite(retriever_query) ==
    ReplaceQuotes(retriever_query) = <<"''">> \/ Len(retriever_query) = 0

\* faulty variant: the rewriting branch is taken whatever the history holds
NeedsFormulationAlways(chat_history) == TRUE

\* `if chat_history:` / `if messages:` - the history is not empty
NeedsFormulation(chat_history) == chat_history # <<>>


\* ------------------------------------------------------------ prompt

\* `"llama-3.3-nemotron-super-49b" in str(kwargs.get("model"))`
IsNemotron(model) == Contains(model, NemotronFamily)

\* system_prompt before the history is folded in: the template, replaced by
\* the reasoning-mode directive for a model of the family
BaseSystemPrompt(template, model, thinking) ==
    IF IsNemotron(model)
      THEN (IF thinking THEN <<"detailed thinking on">> ELSE <<"detailed thinking off">>)
      ELSE template

\* `for message in chat_history: if message.role == "system":
\*      system_prompt = system_prompt + " " + message.content`
RECURSIVE FoldSystem(_, _)
FoldSystem(system_prompt, chat_history) ==
    IF chat_history = <<>> THEN system_prompt
    ELSE FoldSystem(IF Head(chat_history).role = "system"
                      THEN system_prompt \o <<" ">> \o Head(chat_history).content
                      ELSE system_prompt,
                    Tail(chat_history))

\* system_message = [("system", system_prompt)]
SystemMessage(template, model, thinking, chat_history) ==
    <<[role |-> "system",
       content |-> FoldSystem(BaseSystemPrompt(template, model, thinking), chat_history)]>>

\* the primer [("user", template)] for a model of the family, otherwise []
NemotronMessage(template, model) ==
    IF IsNemotron(model) THEN <<[role |-> "user", content |-> template]>> ELSE <<>>

\* llm_chain, line 271:
\* message = system_message + nemotron_message + conversation_history + user_message
LlmChainMessage(q, chat_history, model, thinking) ==
    SystemMessage(ChatTemplate, model, thinking, chat_history)
        \o NemotronMessage(ChatTemplate, model)
        \o ConversationHistory(chat_history)
        \o (IF q # <<>> THEN <<QuestionMessage>> ELSE <<>>)

\* rag_chain, line 383: message = system_message + conversation_history +
\* user_message, where conversation_history is still [] and user_message
\* holds the primer and then the question
RagChainMessage(chat_history, model, thinking) ==
    SystemMessage(RagTemplate, model, thinking, chat_history)
        \o <<>>
        \o (NemotronMessage(RagTemplate, model) \o <<QuestionMessage>>)

\* rag_chain_with_multiturn, line 580: the same sum, conversation_history
\* holding the non-system messages of the truncated chat_history
MultiturnMessage(chat_history, model, thinking) ==
    SystemMessage(RagTemplate, model, thinking, chat_history)
        \o ConversationHistory(chat_history)
        \o (NemotronMessage(RagTemplate, model) \o <<QuestionMessage>>)

\* ------------------------------------------------------------ documents

\* the raw scores of a ranking model that tells no document from another
UniformScores == {5}

\* the raw scores of a ranking model that tells documents apart
RawScores == {2, 4, 6}

\* a relevance score is a fraction num/den; NoScore is the absent score of a
\* document that no ranker has seen
NoScore == [num |-> 0, den |-> 0]

ScoreOf(raw) == [num |-> raw, den |-> 1]

\* similarity search number `search` of the request returning n documents, in
\* the store's order; id is the place in that order
Retrieved(n, search) ==
    [i \in 1..n |-> [id |-> i, search |-> search, reranked |-> FALSE,
                     raw |-> 0, score |-> NoScore]]

\* the place of the first largest raw score of a non-empty list
FirstMax(docs) ==
    CHOOSE i \in 1..Len(docs) :
        /\ \A j \in 1..Len(docs) : docs[j].raw <= docs[i].raw
        /\ \A j \in 1..(i - 1) : docs[j].raw < docs[i].raw

Without(docs, i) == SubSeq(docs, 1, i - 1) \o SubSeq(docs, i + 1, Len(docs))

RECURSIVE ByScoreDescending(_)
ByScoreDescending(docs) ==
    IF docs = <<>> THEN <<>>
    ELSE <<docs[FirstMax(docs)]>> \o ByScoreDescending(Without(docs, FirstMax(docs)))

FirstN(s, n) == SubSeq(s, 1, IF n < Len(s) THEN n ELSE Len(s))

\* ranker.compress_documents(query, documents) of a ranker whose top_n is
\* top_n: document i gets the raw score scores[i] as its relevance score; the
\* top_n best come back, best first.  raw keeps the ranker's score for the
\* record.
CompressDocuments(docs, scores, top_n) ==
    FirstN(ByScoreDescending(
               [i \in 1..Len(docs) |->
                    [docs[i] EXCEPT !.reranked = TRUE, !.raw = scores[i],
                                    !.score = ScoreOf(scores[i])]]),
           top_n)

LeastScore(docs) ==
    CHOOSE m \in {docs[i].score.num : i \in 1..Len(docs)} :
        \A i \in 1..Len(docs) : m <= docs[i].score.num

GreatestScore(docs) ==
    CHOOSE m \in {docs[i].score.num : i \in 1..Len(docs)} :
        \A i \in 1..Len(docs) : docs[i].score.num <= m

\* normalize_relevance_scores(documents): min-max scaling of the relevance
\* scores, (s - min) / (max - min); when all scores are equal every one
\* becomes 1.0; the order of the list is kept
NormalizeRelevanceScores(docs) ==
    IF docs = <<>> THEN docs
    ELSE LET lo == LeastScore(docs)
             hi == GreatestScore(docs)
         IN  [i \in 1..Len(docs) |->
                 [docs[i] EXCEPT !.score =
                     IF hi = lo THEN ScoreOf(1)
                     ELSE [num |-> docs[i].score.num - lo, den |-> hi - lo]]]

\* faulty variant: the reranked list goes on with the ranker's own scores
RerankedUnnormalized(docs, scores, top_n) == CompressDocuments(docs, scores, top_n)

\* the reranked list as the methods use it: compress_documents, then
\* normalize_relevance_scores (lines 414-418, 612-616, 794-796)
Reranked(docs, scores, top_n) ==
    NormalizeRelevanceScores(CompressDocuments(docs, scores, top_n))

\* faulty variant: the retriever is asked for vdb_top_k documents when the
\* reranker is not used
TopKSwapped(rankerHandle, enable_reranker, vdb, rr) ==
    IF rankerHandle = "handle" /\ enable_reranker THEN rr ELSE vdb

\* top_k = vdb_top_k if ranker and kwargs.get("enable_reranker") else reranker_top_k
TopK(rankerHandle, enable_reranker, vdb, rr) ==
    IF rankerHandle = "handle" /\ enable_reranker THEN vdb ELSE rr

\* `ranker and kwargs.get("enable_reranker")`
UseReranker(rankerHandle, enable_reranker) == rankerHandle = "handle" /\ enable_reranker

\* what a relevance or groundedness judgment can give; a judgment that
\* fails counts as "not good enough"
Verdicts == {"yes", "no", "failed"}

\* the texts a regeneration inside the groundedness loop can produce
RegeneratedTexts == {<<"regenerated answer">>}

\* the concurrent requests of ConcSpec
Tasks == 1..MaxTasks

\* ------------------------------------------------------------ state

VARIABLES
    entry,              \* the method the caller invoked
    query,              \* query / content
    history,            \* chat_history / messages, as supplied
    kwargs,             \* enable_reranker, enable_query_rewriting
    env,                \* ENABLE_MULTITURN, ENABLE_REFLECTION, MAX_REFLECTION_LOOP, CONVERSATION_HISTORY
    reranker_top_k,     \* the reranker_top_k argument
    vdb_top_k,          \* the vdb_top_k argument
    faults,             \* the failures the collaborators of this request can raise
    rank_scores,        \* the raw scores the ranking model can give
    verdicts,           \* what the judges of the reflection loops can answer
    TEXT_SPLITTER,      \* the module global: 0 for None, else the instance it holds
    constructed,        \* how many text splitter instances get_text_splitter has made
    ranker_top_n,       \* top_n of the ranker handle the concurrent requests share
    tasks,              \* the concurrent requests, each with its position and locals
    op,                 \* the method whose body runs
    pc,                 \* its position
    vs,                 \* "unset", "handle"
    ranker,             \* "unset", "None", "handle"
    retriever_query,
    reflection_counter,
    context_to_show,
    is_relevant,
    response,           \* the candidate answer text of the groundedness loop
    ret,                \* what the method returned
    chunks,             \* what the caller read from the returned chunk sequence
    logged,             \* a warning or error record was logged
    api_error,          \* the last APIError constructed
    exc,                \* the exception a handler caught
    calls,              \* outbound calls made so far
    obs                 \* what happened so far (history variables)

\* what is shared by the requests of one process
shared == <<TEXT_SPLITTER, constructed, ranker_top_n, tasks>>

\* what a step of a single request leaves as it is
inputs == <<entry, query, history, kwargs, env, reranker_top_k, vdb_top_k, faults,
            rank_scores, verdicts, shared>>

locals == <<vs, ranker, retriever_query, reflection_counter, context_to_show, is_relevant, response>>

vars == <<entry, query, history, kwargs, env, reranker_top_k, vdb_top_k, faults,
          rank_scores, verdicts, TEXT_SPLITTER, constructed, ranker_top_n, tasks, op, pc, vs, ranker, retriever_query,
          reflection_counter, context_to_show, is_relevant, response, ret, chunks,
          logged, api_error, exc, calls, obs>>

NoAPIError == [message |-> <<>>, code |-> 0]

NoAnswer == [title |-> <<>>, description |-> <<>>, parameters |-> <<>>]

NoCalls == [search |-> 0, rerank |-> 0, llm |-> 0, rewriter |-> 0, judge_rel |-> 0, judge_grd |-> 0]

NoObs ==
    [vs_none |-> FALSE,         \* get_vectorstore returned None
     grd_entered |-> FALSE,     \* the groundedness branch was taken
     rel_done |-> FALSE,        \* the relevance loop has returned
     rel_attempts |-> 0,        \* retrieve-and-evaluate attempts of the relevance loop
     rel_incs |-> 0,            \* increments of used made by the relevance loop
     grd_incs |-> 0,            \* increments of used made by the groundedness loop
     all_no |-> TRUE,           \* no relevance judgment so far said "yes"
     last_retrieved |-> <<>>,   \* the documents of the most recent retrieval
     nonempty_seen |-> FALSE,   \* the most recent retrieval returned documents
     from_store |-> <<>>,       \* the list the store gave in the most recent retrieval
     top_k |-> <<>>,            \* <<k>> once the retriever was built with k
     first_gen |-> NoAnswer,    \* the first answer the language model generated
     searched |-> {},           \* the queries handed to the retriever
     truncated |-> <<>>,        \* <<h>> once the history was cut to h
     rewrites |-> <<>>,         \* <<t>> once the query rewriter answered t
     rewriter_history |-> <<>>, \* <<h>> once the query rewriter was given the history h
     formulated |-> <<>>,       \* <<q>> once the retrieval query q was formulated
     message |-> <<>>,          \* the prompt message sequence, once built
     grd_done |-> FALSE,        \* the groundedness loop has returned
     is_grounded |-> FALSE,     \* what it returned: is_grounded
     final_response |-> <<>>]   \*                    final_response

TypeOK ==
    /\ entry \in Entries
    /\ query \in Queries
    /\ history \in Histories \cup LongHistories
    /\ kwargs \in [enable_reranker : BOOLEAN, enable_query_rewriting : BOOLEAN, model : Models]
    /\ pc \in {"dispatch", "start", "setup", "formulate", "retrieve", "relevance",
               "generate", "groundedness", "returned", "done"}
    /\ op \in Entries \cup {"rag_chain_with_multiturn"}
    /\ vs \in {"unset", "handle"}
    /\ ranker \in {"unset", "None", "handle"}
    /\ is_relevant \in BOOLEAN
    /\ logged \in BOOLEAN
    /\ reranker_top_k \in Nat /\ vdb_top_k \in Nat
    /\ faults \subseteq Failures
    /\ rank_scores \subseteq Nat
    /\ verdicts \subseteq Verdicts
    /\ TEXT_SPLITTER \in Nat /\ constructed \in Nat /\ ranker_top_n \in Nat
    /\ DOMAIN tasks \subseteq Tasks

\* the request is the only one of its process: no concurrent task, the
\* shared state as the module leaves it (line 149)
Alone ==
    /\ TEXT_SPLITTER = 0
    /\ constructed = 0
    /\ ranker_top_n = 0
    /\ tasks = <<>>

\* the state of a request before its first step
Fresh ==
    /\ op = entry
    /\ pc = CASE entry = "rag_chain" -> "dispatch"
              [] entry = "document_search" -> "setup"
              [] OTHER -> "start"
    /\ vs = "unset"
    /\ ranker = "unset"
    /\ retriever_query = <<>>
    /\ reflection_counter = NoCounter
    /\ context_to_show = <<>>
    /\ is_relevant = FALSE
    /\ response = <<>>
    /\ ret = RetPending
    /\ chunks = <<>>
    /\ logged = FALSE
    /\ api_error = NoAPIError
    /\ exc = NoExc
    /\ calls = NoCalls
    /\ obs = NoObs

\* Spec: every entry point, short histories, no model named in the request,
\* CONVERSATION_HISTORY and ENABLE_NEMOTRON_THINKING left unset; the
\* collaborators can raise the given failures
Requests(failures) ==
    /\ entry \in Entries
    /\ query \in Queries
    /\ history \in Histories
    /\ kwargs \in [enable_reranker : BOOLEAN, enable_query_rewriting : BOOLEAN,
                   model : {<<"None">>}]
    /\ env \in [ENABLE_MULTITURN : BOOLEAN, ENABLE_REFLECTION : BOOLEAN,
                MAX_REFLECTION_LOOP : (0..MaxLoops) \cup {DefaultMaxReflectionLoop},
                CONVERSATION_HISTORY : {DefaultConversationHistory},
                ENABLE_NEMOTRON_THINKING : {FALSE}]
    \* a setting the invoked method never reads keeps its default
    \* MAX_REFLECTION_LOOP is set to 0..MaxLoops or left unset (the default);
    \* it is not read when reflection is off
    /\ ~env.ENABLE_REFLECTION => env.MAX_REFLECTION_LOOP = DefaultMaxReflectionLoop
    /\ entry \in {"ingest_docs", "llm_chain"} =>
            ~env.ENABLE_REFLECTION /\ ~kwargs.enable_reranker
    /\ entry # "rag_chain" => ~env.ENABLE_MULTITURN
    /\ (entry \in {"ingest_docs", "llm_chain"} \/ (entry = "rag_chain" /\ ~env.ENABLE_MULTITURN))
            => ~kwargs.enable_query_rewriting
    /\ entry = "ingest_docs" => history = <<>>
    /\ reranker_top_k = MaxDocs /\ vdb_top_k = MaxDocs
    /\ faults = failures
    /\ rank_scores = UniformScores
    /\ verdicts = Verdicts
    /\ Alone
    /\ Fresh

Init == Requests(Failures)

\* the requests of FairSpec: those of Spec, with one failure of each kind
InitFair == Requests(PlainFailures)

\* ------------------------------------------------------------ returning

\* the locals of the method die when it returns
ResetLocals ==
    /\ vs' = "unset"
    /\ ranker' = "unset"
    /\ retriever_query' = <<>>
    /\ reflection_counter' = NoCounter
    /\ context_to_show' = <<>>
    /\ is_relevant' = FALSE
    /\ response' = <<>>

\* a chunk sequence (or a pair holding one) is read by the caller afterwards
Consumable(r) == r.shape \in {"generator", "iter", "pair"}

Return(r) ==
    /\ ret' = r
    /\ pc' = IF Consumable(r) THEN "returned" ELSE "done"
    /\ ResetLocals

\* the handler of the running method
Handler(e) ==
    CASE op = "llm_chain" -> LlmChainHandler(e)
      [] op = "rag_chain" -> RagChainHandler(e)
      [] op = "rag_chain_with_multiturn" -> MultiturnHandler(e)
      [] op = "document_search" -> DocumentSearchHandler(e)
      [] op = "ingest_docs" ->
            [ret |-> RetRaise(IngestClassify(e).message, IngestClassify(e).code),
             logged |-> TRUE]

\* exception e reaches the except clauses of the running method
Caught(e) ==
    LET h == Handler(e)
    IN  /\ exc' = e
        /\ Return(h.ret)
        /\ logged' = (logged \/ h.logged)
        /\ api_error' = IF h.ret.shape = "raise"
                          THEN [message |-> h.ret.message, code |-> h.ret.code]
                          ELSE api_error

\* a collaborator call of this step raises; callsThen are the outbound calls
\* made when it does, the failing one included
CollaboratorFails(callsThen) ==
    \E e \in faults :
        /\ Caught(e)
        /\ calls' = callsThen
        /\ UNCHANGED <<inputs, op, chunks, obs>>

Bump(c, field) == [c EXCEPT ![field] = @ + 1]

\* ------------------------------------------------------------ ingest_docs

\* ingest_docs, lines 191-228
IngestDocs ==
    /\ pc = "start" /\ op = "ingest_docs"
    /\ \/ CollaboratorFails(calls)
       \/ \* raw_documents is empty ("No documents available to process!"), or
          \* the documents are split and added: the method ends, returning None
          \E empty \in BOOLEAN :
            /\ Return(RetNone)
            /\ logged' = (logged \/ empty)
            /\ UNCHANGED <<inputs, op, chunks, api_error, exc, calls, obs>>

\* ------------------------------------------------------------ llm_chain

\* faulty variant: the request is sent down the retrieval pipeline although
\* it asked for generation without the knowledge base
LlmChainUsesKnowledgeBase ==
    /\ pc = "start" /\ op = "llm_chain"
    /\ vs' = "handle"
    /\ ranker' = "None"
    /\ retriever_query' = query
    /\ pc' = "retrieve"
    /\ UNCHANGED <<inputs, op, reflection_counter, context_to_show, is_relevant, response,
                   ret, chunks, logged, api_error, exc, calls, obs>>

\* llm_chain up to `return stream_structured_response()`, lines 239-296
LlmChain ==
    /\ pc = "start" /\ op = "llm_chain"
    /\ \/ CollaboratorFails(calls)
       \/ /\ Return(RetGen)
          /\ obs' = [obs EXCEPT !.message =
                        LlmChainMessage(query, history, kwargs.model,
                                        env.ENABLE_NEMOTRON_THINKING)]
          /\ UNCHANGED <<inputs, op, chunks, logged, api_error, exc, calls>>

\* ------------------------------------------------------------ rag_chain

\* rag_chain, lines 345-347: ENABLE_MULTITURN hands the request over
RagChainDispatch ==
    /\ pc = "dispatch" /\ op = "rag_chain"
    /\ op' = IF env.ENABLE_MULTITURN THEN "rag_chain_with_multiturn" ELSE "rag_chain"
    /\ pc' = "setup"
    /\ UNCHANGED <<inputs, locals, ret, chunks, logged, api_error, exc, calls, obs>>

VsNoneMessage ==
    <<"Vector store not initialized properly. Please check if the vector DB is up and running.">>

\* `if vs is None:` in rag_chain and rag_chain_with_multiturn raises
\* APIError(..., 500), which the method's own `except Exception` catches; in
\* document_search it logs and raises ValueError(), which the method's own
\* `except Exception` turns into APIError(f"Failed to search documents. ")
VsIsNone ==
    LET e == IF op = "document_search"
               THEN [kind |-> "Exception", msg |-> <<>>]
               ELSE [kind |-> "Exception", msg |-> VsNoneMessage]
        h == Handler(e)
    IN  /\ exc' = e
        /\ Return(h.ret)
        /\ logged' = TRUE
        /\ api_error' = IF h.ret.shape = "raise"
                          THEN [message |-> h.ret.message, code |-> h.ret.code]
                          ELSE [message |-> VsNoneMessage, code |-> 500]
        /\ obs' = [obs EXCEPT !.vs_none = TRUE]
        /\ UNCHANGED <<inputs, op, chunks, calls>>

\* get_embedding_model, get_vectorstore, get_llm, get_ranking_model, top_k and
\* as_retriever: lines 350-359, 512-522, 719-729
Setup ==
    /\ pc = "setup" /\ op \in {"rag_chain", "rag_chain_with_multiturn", "document_search"}
    /\ \/ CollaboratorFails(calls)
       \/ VsIsNone
       \/ \E r \in {"None", "handle"} :
            /\ vs' = "handle"
            /\ ranker' = r
            /\ retriever_query' = IF op = "rag_chain" THEN query ELSE retriever_query
            /\ pc' = IF op = "rag_chain" THEN "retrieve" ELSE "formulate"
            \* rag_chain builds its prompt next (lines 361-385) and retrieves
            \* with the query as it came
            /\ obs' = LET k == TopK(r, kwargs.enable_reranker, vdb_top_k, reranker_top_k)
                       IN  IF op = "rag_chain"
                             THEN [obs EXCEPT !.top_k = <<k>>,
                                              !.formulated = <<query>>,
                                              !.message = RagChainMessage(history, kwargs.model,
                                                             env.ENABLE_NEMOTRON_THINKING)]
                             ELSE [obs EXCEPT !.top_k = <<k>>]
            /\ UNCHANGED <<inputs, op, reflection_counter, context_to_show, is_relevant,
                           response, ret, chunks, logged, api_error, exc, calls>>

\* the history the formulation looks at: rag_chain_with_multiturn truncates
\* first (lines 526-527); document_search tests and joins the supplied
\* messages and truncates only inside the rewriting branch (lines 732-737)
FormulationHistory ==
    IF op = "rag_chain_with_multiturn"
      THEN TruncateHistory(history, env.CONVERSATION_HISTORY)
      ELSE history

\* iter([""]) for rag_chain_with_multiturn, [] for document_search
EmptyRewriteReturn ==
    IF op = "document_search" THEN RetList(<<>>) ELSE RetIter(<<>>)

\* the history the rewriting branch hands to the rewriter: the chat_history
\* cut at lines 526-527, the messages cut at lines 736-737
RewriterHistory == TruncateHistory(history, env.CONVERSATION_HISTORY)

\* the chat_history handed to the rewriter (lines 567, 759): the
\* conversation_history collected from the cut history at lines 542-546 and
\* 738-742
RewriterInput == ConversationHistory(RewriterHistory)

\* what the formulation leaves behind: the history as cut (by
\* rag_chain_with_multiturn always, by document_search in the rewriting
\* branch), the rewriter's answer, the retrieval query, and for
\* rag_chain_with_multiturn the prompt built at lines 578-582
ObsAfterFormulate(rewriting, outs, rq, built) ==
    [obs EXCEPT
        !.truncated = IF op = "rag_chain_with_multiturn" \/ rewriting
                        THEN <<RewriterHistory>> ELSE @,
        !.rewrites = outs,
        !.rewriter_history = IF rewriting THEN <<RewriterInput>> ELSE @,
        !.formulated = IF built THEN <<rq>> ELSE @,
        !.message = IF built /\ op = "rag_chain_with_multiturn"
                      THEN MultiturnMessage(FormulationHistory, kwargs.model,
                                            env.ENABLE_NEMOTRON_THINKING)
                      ELSE @]

\* the retrieval query: lines 524-582 and 731-767
Formulate ==
    /\ pc = "formulate" /\ op \in {"rag_chain_with_multiturn", "document_search"}
    /\ IF NeedsFormulation(FormulationHistory)
         THEN IF kwargs.enable_query_rewriting
                THEN \/ CollaboratorFails(Bump(calls, "rewriter"))
                     \/ \E out \in RewriteOutputs :
                          /\ calls' = Bump(calls, "rewriter")
                          /\ IF IsEmptyRewrite(out)
                               THEN /\ Return(EmptyRewriteReturn)
                                    /\ obs' = ObsAfterFormulate(TRUE, <<out>>, out, FALSE)
                               ELSE /\ retriever_query' = out
                                    /\ pc' = "retrieve"
                                    /\ obs' = ObsAfterFormulate(TRUE, <<out>>, out, TRUE)
                                    /\ UNCHANGED <<vs, ranker, reflection_counter,
                                                   context_to_show, is_relevant, response, ret>>
                          /\ UNCHANGED <<inputs, op, chunks, logged, api_error, exc>>
                ELSE LET rq == CombinedQuery(FormulationHistory, query)
                     IN  /\ retriever_query' = rq
                         /\ pc' = "retrieve"
                         /\ obs' = ObsAfterFormulate(FALSE, <<>>, rq, TRUE)
                         /\ UNCHANGED <<inputs, op, vs, ranker, reflection_counter,
                                        context_to_show, is_relevant, response, ret, chunks,
                                        logged, api_error, exc, calls>>
         ELSE /\ retriever_query' = query
              /\ pc' = "retrieve"
              /\ obs' = ObsAfterFormulate(FALSE, <<>>, query, TRUE)
              /\ UNCHANGED <<inputs, op, vs, ranker, reflection_counter, context_to_show,
                             is_relevant, response, ret, chunks, logged, api_error,
                             exc, calls>>


\* ------------------------------------------------------------ retrieval

\* faulty variant: the counter is built one larger than MAX_REFLECTION_LOOP
NewReflectionCounterOffByOne(max_loops) == ReflectionCounter(max_loops + 1)

\* max_loops = int(os.environ.get("MAX_REFLECTION_LOOP", 3))
\* reflection_counter = ReflectionCounter(max_loops)
NewReflectionCounter(max_loops) == ReflectionCounter(max_loops)

\* `if os.environ.get("ENABLE_REFLECTION", "false").lower() == "true":` -
\* the reflection branch of lines 387-389, 584-586, 769-771
StartReflection ==
    /\ pc = "retrieve" /\ env.ENABLE_REFLECTION
    /\ reflection_counter' = NewReflectionCounter(env.MAX_REFLECTION_LOOP)
    /\ pc' = "relevance"
    /\ UNCHANGED <<inputs, op, vs, ranker, retriever_query, context_to_show, is_relevant,
                   response, ret, chunks, logged, api_error, exc, calls, obs>>

\* the retriever's k of the running request (lines 357, 520, 727)
RetrieverK == TopK(ranker, kwargs.enable_reranker, vdb_top_k, reranker_top_k)

\* the top_n of the ranker of a request: get_ranking_model(top_n=reranker_top_k)
\* at lines 356, 519, 726, and line 785 again
RankerTopN == reranker_top_k

\* the raw scores a ranker can give to n documents
ScoreBatches(n, rerank) == IF rerank THEN [1..n -> rank_scores] ELSE {<<>>}

\* one similarity search answered with n documents, reranked or not
Search(n, rerank, scores) ==
    LET docs == Retrieved(n, calls.search + 1)
    IN  IF rerank THEN Reranked(docs, scores, RankerTopN) ELSE docs

CallsAfterSearch(rerank) ==
    IF rerank THEN Bump(Bump(calls, "search"), "rerank") ELSE Bump(calls, "search")

\* the failures of a search step: the search fails, or the rerank after it
CallsAtSearchFailure(rerank) ==
    {Bump(calls, "search")} \cup (IF rerank THEN {CallsAfterSearch(TRUE)} ELSE {})

ObsAfterSearch(docs, q, stored) ==
    [obs EXCEPT !.last_retrieved = docs, !.nonempty_seen = (docs # <<>>),
                !.from_store = stored, !.searched = @ \cup {q}]

\* the else branch of lines 400-422, 598-619, 776-800: retriever, then the
\* reranker when it is enabled; document_search returns the documents
RetrieveDirect ==
    /\ pc = "retrieve" /\ ~env.ENABLE_REFLECTION
    /\ LET rerank == UseReranker(ranker, kwargs.enable_reranker)
       IN  \/ \E c \in CallsAtSearchFailure(rerank) : CollaboratorFails(c)
           \/ \E n \in 0..RetrieverK : \E scores \in ScoreBatches(n, rerank) :
                LET docs == Search(n, rerank, scores)
                IN  /\ calls' = CallsAfterSearch(rerank)
                    /\ obs' = ObsAfterSearch(docs, retriever_query,
                                             Retrieved(n, calls.search + 1))
                    /\ IF op = "document_search"
                         THEN Return(RetList(docs))
                         ELSE /\ context_to_show' = docs
                              /\ pc' = "generate"
                              /\ UNCHANGED <<vs, ranker, retriever_query, reflection_counter,
                                             is_relevant, response, ret>>
                    /\ UNCHANGED <<inputs, op, chunks, logged, api_error, exc>>

\* the query handed to check_context_relevance: query (line 392),
\* retriever_query (line 589), content (line 772)
ReflectionQuery == IF op = "document_search" THEN query ELSE retriever_query

\* check_context_relevance reranks when it is given a ranker; document_search
\* also hands it kwargs.get("enable_reranker")
ReflectionReranks ==
    ranker = "handle" /\ (op = "document_search" => kwargs.enable_reranker)

\* faulty variant: documents judged not relevant are dropped instead of returned
AfterRelevanceDropsContext(docs, relevant) ==
    /\ logged' = (logged \/ ~relevant)
    /\ IF op = "document_search"
         THEN Return(RetList(IF relevant THEN docs ELSE <<>>))
         ELSE /\ context_to_show' = (IF relevant THEN docs ELSE <<>>)
              /\ is_relevant' = relevant
              /\ pc' = "generate"
              /\ UNCHANGED <<vs, ranker, retriever_query, response, ret>>

\* faulty variant: document_search goes on to the response generator with the
\* documents of the relevance loop, as the rag methods do
AfterRelevanceGenerates(docs, relevant) ==
    /\ logged' = (logged \/ ~relevant)
    /\ context_to_show' = docs
    /\ is_relevant' = relevant
    /\ pc' = "generate"
    /\ (op = "document_search" => reflection_counter' = reflection_counter)
    /\ UNCHANGED <<vs, ranker, retriever_query, response, ret>>

\* the relevance loop has returned (docs, relevant) to its caller, which logs
\* a warning when not relevant; document_search then returns the documents
AfterRelevance(docs, relevant) ==
    /\ logged' = (logged \/ ~relevant)
    /\ IF op = "document_search"
         THEN Return(RetList(docs))
         ELSE /\ context_to_show' = docs
              /\ is_relevant' = relevant
              /\ pc' = "generate"
              /\ UNCHANGED <<vs, ranker, retriever_query, response, ret>>

\* check_context_relevance(query, retriever, ranker, reflection_counter): one
\* pass of its loop.  While budget remains: retrieve, judge, count the
\* attempt; leave with the documents when they are relevant or when the
\* budget is used up.
RelevanceLoop ==
    /\ pc = "relevance"
    /\ IF Remaining(reflection_counter) > 0
         THEN \/ \E c \in CallsAtSearchFailure(ReflectionReranks) : CollaboratorFails(c)
              \/ \E n \in 0..RetrieverK, v \in verdicts :
                 \E scores \in ScoreBatches(n, ReflectionReranks) :
                   LET docs == Search(n, ReflectionReranks, scores)
                       counted == Increment(reflection_counter)
                       out == v = "yes" \/ Remaining(counted) = 0
                   IN  /\ calls' = Bump(CallsAfterSearch(ReflectionReranks), "judge_rel")
                       /\ obs' = [ObsAfterSearch(docs, ReflectionQuery,
                                                 Retrieved(n, calls.search + 1)) EXCEPT
                                    !.rel_attempts = @ + 1,
                                    !.rel_incs = @ + (counted.current_count
                                                  - reflection_counter.current_count),
                                    !.all_no = @ /\ v # "yes",
                                    !.rel_done = out]
                       /\ IF out
                            THEN /\ AfterRelevance(docs, v = "yes")
                                 /\ IF op = "document_search"
                                      THEN TRUE
                                      ELSE reflection_counter' = counted
                            ELSE /\ reflection_counter' = counted
                                 /\ context_to_show' = docs
                                 /\ UNCHANGED <<pc, vs, ranker, retriever_query, is_relevant,
                                                response, ret, logged>>
                       /\ UNCHANGED <<inputs, op, chunks, api_error, exc>>
         ELSE /\ obs' = [obs EXCEPT !.rel_done = TRUE]
              /\ AfterRelevance(context_to_show, FALSE)
              /\ IF op = "document_search" THEN TRUE ELSE UNCHANGED reflection_counter
              /\ UNCHANGED <<inputs, op, chunks, api_error, exc, calls>>


\* ------------------------------------------------------------ generation

\* faulty variant: the remaining budget is not looked at
GroundednessGuardNoBudget(enabled, counter) == enabled

\* `os.environ.get("ENABLE_REFLECTION", "false").lower() == "true" and
\* reflection_counter.remaining > 0`, lines 430 and 628
GroundednessGuard(enabled, counter) == enabled /\ Remaining(counter) > 0

\* lines 429-457 and 627-661: with budget left, generate now and enter the
\* groundedness loop; otherwise return the lazy chunk sequence with the context
Generate ==
    /\ pc = "generate" /\ op \in {"rag_chain", "rag_chain_with_multiturn"}
    /\ IF GroundednessGuard(env.ENABLE_REFLECTION, reflection_counter)
         THEN \/ CollaboratorFails(Bump(calls, "llm"))
              \/ \E a \in ModelAnswers :
                   /\ response' = StrOf(a)
                   /\ calls' = Bump(calls, "llm")
                   /\ obs' = [obs EXCEPT !.grd_entered = TRUE, !.first_gen = a]
                   /\ pc' = "groundedness"
                   /\ UNCHANGED <<inputs, op, vs, ranker, retriever_query, reflection_counter,
                                  context_to_show, is_relevant, ret, chunks, logged,
                                  api_error, exc>>
         ELSE /\ Return(RetPair(RetGen, context_to_show))
              /\ UNCHANGED <<inputs, op, chunks, logged, api_error, exc, calls, obs>>

\* the answer built from final_response: rag_chain passes description=
\* (lines 440-442), rag_chain_with_multiturn passes response=, sources_used=
\* and reasoning= (lines 638-642)
ReflectedAnswer(final_response) ==
    IF op = "rag_chain"
      THEN StructuredResponse([description |->
              <<"vGPU configuration generated with reflection and grounding checks: ">>
                  \o final_response])
      ELSE StructuredResponse([response |-> final_response, sources_used |-> TRUE,
              reasoning |-> <<"Response generated with multiturn RAG, reflection and grounding checks">>])

\* faulty variant: reflection as a hard gate: an answer that is not grounded is
\* withheld and the method ends without returning one
AfterGroundednessGate(final_response, grounded) ==
    /\ logged' = (logged \/ ~grounded)
    /\ Return(IF grounded
                THEN RetPair(RetIter(JsonDumps(ReflectedAnswer(final_response))), context_to_show)
                ELSE RetNone)

\* check_response_groundedness has returned (final_response, grounded): the
\* caller warns when not grounded and returns the answer with the context
AfterGroundedness(final_response, grounded) ==
    /\ logged' = (logged \/ ~grounded)
    /\ Return(RetPair(RetIter(JsonDumps(ReflectedAnswer(final_response))), context_to_show))

\* check_response_groundedness(response, docs, reflection_counter): one pass
\* of its loop.  While budget remains: judge the candidate, count the
\* attempt; accept it when grounded or when the budget is used up, otherwise
\* regenerate and judge again.
GroundednessLoop ==
    /\ pc = "groundedness"
    /\ IF Remaining(reflection_counter) > 0
         THEN \E v \in verdicts :
                LET counted == Increment(reflection_counter)
                    out == v = "yes" \/ Remaining(counted) = 0
                    judged == [obs EXCEPT !.grd_incs = @ + (counted.current_count
                                                    - reflection_counter.current_count)]
                IN  IF out
                      THEN /\ AfterGroundedness(response, v = "yes")
                           /\ calls' = Bump(calls, "judge_grd")
                           /\ obs' = [judged EXCEPT !.grd_done = TRUE,
                                                    !.is_grounded = (v = "yes"),
                                                    !.final_response = response]
                           /\ UNCHANGED <<inputs, op, chunks, api_error, exc>>
                      ELSE \/ \E c \in {Bump(Bump(calls, "judge_grd"), "llm")} :
                                CollaboratorFails(c)
                           \/ \E text \in RegeneratedTexts :
                                /\ response' = text
                                /\ reflection_counter' = counted
                                /\ calls' = Bump(Bump(calls, "judge_grd"), "llm")
                                /\ obs' = judged
                                /\ UNCHANGED <<inputs, op, pc, vs, ranker, retriever_query,
                                               context_to_show, is_relevant, ret, chunks,
                                               logged, api_error, exc>>
         ELSE /\ AfterGroundedness(response, FALSE)
              /\ obs' = [obs EXCEPT !.grd_done = TRUE, !.final_response = response]
              /\ UNCHANGED <<inputs, op, chunks, api_error, exc, calls>>

\* ------------------------------------------------------------ the caller reads

\* the answer a generator body yields when chain.invoke raises e: lines
\* 289-294, 450-455, 653-659
GenerationErrorAnswer(e) ==
    CASE op = "llm_chain" ->
            StructuredResponse([description |->
                <<"Error generating vGPU configuration: ">> \o e.msg
                    \o <<". Unable to provide recommendation.">>])
      [] op = "rag_chain" ->
            StructuredResponse([description |->
                <<"Error generating RAG vGPU configuration: ">> \o e.msg
                    \o <<". Unable to provide recommendation.">>])
      [] OTHER ->
            StructuredResponse([response |->
                <<"Error generating multiturn RAG response: ">> \o e.msg,
                sources_used |-> TRUE])

\* faulty variant: a generation that failed is tried once more
CallsAtGenerationFailureRetry(c) == Bump(Bump(c, "llm"), "llm")

\* the outbound calls made when chain.invoke raised inside the generator
\* body: the except clause builds the error answer and yields it, it does
\* not invoke the chain again (lines 284-294, 446-455, 646-659)
CallsAtGenerationFailure(c) == Bump(c, "llm")

IsLazy(r) ==
    \/ r.shape = "generator"
    \/ r.shape = "pair" /\ r.chunks.shape = "generator"

\* the caller iterates a generator: its body runs chain.invoke once and
\* yields one chunk, the dumped answer or the dumped error answer.  (Lines
\* 649-650 set sources_used only on an object that has that attribute;
\* StructuredResponse has none, so the answer is dumped as generated.)
ConsumeGenerator ==
    /\ pc = "returned" /\ IsLazy(ret)
    /\ \/ \E a \in ModelAnswers :
            /\ chunks' = <<JsonDumps(a)>>
            /\ obs' = [obs EXCEPT !.first_gen = a]
            /\ calls' = Bump(calls, "llm")
            /\ UNCHANGED <<logged, exc>>
       \/ \E e \in faults :
            /\ chunks' = <<JsonDumps(GenerationErrorAnswer(e))>>
            /\ logged' = TRUE
            /\ exc' = e
            /\ calls' = CallsAtGenerationFailure(calls)
            /\ UNCHANGED obs
    /\ pc' = "done"
    /\ UNCHANGED <<inputs, op, locals, ret, api_error>>

\* the caller iterates iter([chunk])
ConsumeIter ==
    /\ pc = "returned" /\ ~IsLazy(ret)
    /\ chunks' = IF ret.shape = "pair" THEN ret.chunks.items ELSE ret.items
    /\ pc' = "done"
    /\ UNCHANGED <<inputs, op, locals, ret, logged, api_error, exc, calls, obs>>

\* ------------------------------------------------------------ specification

Next ==
    \/ IngestDocs
    \/ LlmChain
    \/ RagChainDispatch
    \/ Setup
    \/ Formulate
    \/ StartReflection
    \/ RetrieveDirect
    \/ RelevanceLoop
    \/ Generate
    \/ GroundednessLoop
    \/ ConsumeGenerator
    \/ ConsumeIter

Spec == Init /\ [][Next]_vars

\* every step of a request is taken by the one task that runs it
FairSpec == InitFair /\ [][Next]_vars /\ WF_vars(Next)

\* HistSpec: the requests that read a conversation, with histories of up to
\* MaxLongHist messages over two texts, CONVERSATION_HISTORY set to
\* 0..MaxTurns or left unset, and a model of the primed family or none.
\* Its behaviours are the requests up to the point where the prompt and the
\* retrieval query are built; Spec follows a request from there to its end.
\* ENABLE_REFLECTION and enable_reranker are not read in these steps.
InitHist ==
    /\ entry \in {"llm_chain", "rag_chain", "document_search"}
    /\ query \in Queries
    /\ history \in LongHistories
    /\ kwargs \in [enable_reranker : {FALSE}, enable_query_rewriting : BOOLEAN,
                   model : Models]
    /\ env \in [ENABLE_MULTITURN : BOOLEAN, ENABLE_REFLECTION : {FALSE},
                MAX_REFLECTION_LOOP : {DefaultMaxReflectionLoop},
                CONVERSATION_HISTORY : (0..MaxTurns) \cup {DefaultConversationHistory},
                ENABLE_NEMOTRON_THINKING : BOOLEAN]
    \* a setting the invoked method never reads keeps its default
    /\ entry # "rag_chain" => ~env.ENABLE_MULTITURN
    /\ (entry = "llm_chain" \/ (entry = "rag_chain" /\ ~env.ENABLE_MULTITURN))
            => ~kwargs.enable_query_rewriting
    \* (document_search is run under every CONVERSATION_HISTORY, as
    \* rag_chain_with_multiturn is, so that the two can be compared)
    /\ ~(env.ENABLE_MULTITURN \/ kwargs.enable_query_rewriting \/ entry = "document_search")
            => env.CONVERSATION_HISTORY = DefaultConversationHistory
    /\ (entry = "document_search" \/ ~IsNemotron(kwargs.model))
            => ~env.ENABLE_NEMOTRON_THINKING
    /\ reranker_top_k = MaxDocs /\ vdb_top_k = MaxDocs
    /\ faults = PlainFailures
    /\ rank_scores = UniformScores
    /\ verdicts = Verdicts
    /\ Alone
    /\ Fresh

NextHist ==
    \/ LlmChain
    \/ RagChainDispatch
    \/ Setup
    \/ Formulate

HistSpec == InitHist /\ [][NextHist]_vars

\* RankSpec: the retrieving requests with the two top-k arguments set to
\* 1..MaxTopK independently and a ranking model that tells documents apart;
\* no conversation.  Its
\* behaviours are the requests up to the point where the documents are
\* returned or handed to the generation step; Spec follows a request from
\* there to its end.
InitRank ==
    /\ entry \in {"rag_chain", "document_search"}
    /\ query \in Queries
    /\ history = <<>>
    /\ kwargs \in [enable_reranker : BOOLEAN, enable_query_rewriting : {FALSE},
                   model : {<<"None">>}]
    /\ env \in [ENABLE_MULTITURN : BOOLEAN, ENABLE_REFLECTION : BOOLEAN,
                MAX_REFLECTION_LOOP : {1, DefaultMaxReflectionLoop},
                CONVERSATION_HISTORY : {DefaultConversationHistory},
                ENABLE_NEMOTRON_THINKING : {FALSE}]
    /\ entry # "rag_chain" => ~env.ENABLE_MULTITURN
    \* with reflection the relevance loop has one attempt
    /\ env.MAX_REFLECTION_LOOP = (IF env.ENABLE_REFLECTION THEN 1
                                                           ELSE DefaultMaxReflectionLoop)
    /\ reranker_top_k \in 1..MaxTopK /\ vdb_top_k \in 1..MaxTopK
    /\ faults = PlainFailures
    /\ rank_scores = RawScores
    /\ verdicts = {"yes", "no"}
    /\ Alone
    /\ Fresh

NextRank ==
    \/ RagChainDispatch
    \/ Setup
    \/ Formulate
    \/ StartReflection
    \/ RetrieveDirect
    \/ RelevanceLoop
    \/ Generate

RankSpec == InitRank /\ [][NextRank]_vars

\* JudgeSpec: the requests with reflection whose judges either say "yes" or
\* fail: a judgment that did not say "yes" is a judgment that failed.
InitJudge ==
    /\ entry \in {"rag_chain", "document_search"}
    /\ query \in Queries
    /\ history = <<>>
    /\ kwargs \in [enable_reranker : BOOLEAN, enable_query_rewriting : {FALSE},
                   model : {<<"None">>}]
    /\ env \in [ENABLE_MULTITURN : BOOLEAN, ENABLE_REFLECTION : {TRUE},
                MAX_REFLECTION_LOOP : (0..MaxLoops) \cup {DefaultMaxReflectionLoop},
                CONVERSATION_HISTORY : {DefaultConversationHistory},
                ENABLE_NEMOTRON_THINKING : {FALSE}]
    /\ entry # "rag_chain" => ~env.ENABLE_MULTITURN
    /\ reranker_top_k = MaxDocs /\ vdb_top_k = MaxDocs
    /\ faults = PlainFailures
    /\ rank_scores = UniformScores
    /\ verdicts = {"yes", "failed"}
    /\ Alone
    /\ Fresh

NextJudge ==
    \/ RagChainDispatch
    \/ Setup
    \/ Formulate
    \/ StartReflection
    \/ RelevanceLoop
    \/ Generate
    \/ GroundednessLoop
    \/ ConsumeGenerator
    \/ ConsumeIter

JudgeSpec == InitJudge /\ [][NextJudge]_vars


\* ------------------------------------------------------------ concurrent requests

\* the variables of the single request followed by the other specifications
single == <<entry, query, history, kwargs, env, reranker_top_k, vdb_top_k, faults,
            rank_scores, verdicts, op, pc, locals, ret, chunks, logged, api_error,
            exc, calls, obs>>

\* a concurrent request before its first step: an ingest_docs call, or a
\* document_search call with its reranker_top_k argument
NewTask(kind, rr) ==
    [kind |-> kind,
     pc |-> IF kind = "ingest_docs" THEN "load" ELSE "setup",
     made |-> 0,             \* the text splitter instance this call constructed
     used |-> 0,             \* the instance whose split_documents it called
     reranker_top_k |-> rr,
     docs |-> <<>>]          \* the list document_search returned

NewTasks ==
    {NewTask("ingest_docs", 0)}
        \cup {NewTask("document_search", rr) : rr \in 1..MaxTopK}

\* raw_documents = UnstructuredFileLoader(_path).load(); `if raw_documents:`
\* (lines 194-196)
IngestLoad ==
    \E t \in Tasks, empty \in BOOLEAN :
        /\ tasks[t].pc = "load"
        /\ tasks' = [tasks EXCEPT ![t].pc = IF empty THEN "done" ELSE "check"]
        /\ UNCHANGED <<single, TEXT_SPLITTER, constructed, ranker_top_n>>

\* `if not TEXT_SPLITTER:` (line 200)
IngestCheck ==
    \E t \in Tasks :
        /\ tasks[t].pc = "check"
        /\ tasks' = [tasks EXCEPT ![t].pc = IF TEXT_SPLITTER = 0 THEN "construct"
                                                                 ELSE "split"]
        /\ UNCHANGED <<single, TEXT_SPLITTER, constructed, ranker_top_n>>

\* get_text_splitter() returns a new instance (line 201, right-hand side)
IngestConstruct ==
    \E t \in Tasks :
        /\ tasks[t].pc = "construct"
        /\ constructed' = constructed + 1
        /\ tasks' = [tasks EXCEPT ![t].pc = "assign", ![t].made = constructed + 1]
        /\ UNCHANGED <<single, TEXT_SPLITTER, ranker_top_n>>

\* `TEXT_SPLITTER = ...` (line 201, the store to the global)
IngestAssign ==
    \E t \in Tasks :
        /\ tasks[t].pc = "assign"
        /\ TEXT_SPLITTER' = tasks[t].made
        /\ tasks' = [tasks EXCEPT ![t].pc = "split"]
        /\ UNCHANGED <<single, constructed, ranker_top_n>>

\* documents = TEXT_SPLITTER.split_documents(raw_documents) (line 205): the
\* global is read again; the documents are then added to the vector store
IngestSplit ==
    \E t \in Tasks :
        /\ tasks[t].pc = "split"
        /\ tasks' = [tasks EXCEPT ![t].pc = "done", ![t].used = TEXT_SPLITTER]
        /\ UNCHANGED <<single, TEXT_SPLITTER, constructed, ranker_top_n>>

\* document_search up to the reranking branch (lines 718-784): local_ranker is
\* the handle the requests share
SearchSetup ==
    \E t \in Tasks :
        /\ tasks[t].pc = "setup"
        /\ tasks' = [tasks EXCEPT ![t].pc = "set_top_n"]
        /\ UNCHANGED <<single, TEXT_SPLITTER, constructed, ranker_top_n>>

\* local_ranker.top_n = reranker_top_k (line 785)
SearchSetTopN ==
    \E t \in Tasks :
        /\ tasks[t].pc = "set_top_n"
        /\ ranker_top_n' = tasks[t].reranker_top_k
        /\ tasks' = [tasks EXCEPT ![t].pc = "rerank"]
        /\ UNCHANGED <<single, TEXT_SPLITTER, constructed>>

\* docs = retriever.invoke(...), normalize_relevance_scores, return docs
\* (lines 794-797): the store gives MaxTopK documents and compress_documents
\* cuts them to the top_n the handle has at that moment
SearchRerank ==
    \E t \in Tasks :
        /\ tasks[t].pc = "rerank"
        /\ \E scores \in [1..MaxTopK -> UniformScores] :
              tasks' = [tasks EXCEPT ![t].pc = "done",
                                     ![t].docs = Reranked(Retrieved(MaxTopK, t), scores,
                                                          ranker_top_n)]
        /\ UNCHANGED <<single, TEXT_SPLITTER, constructed, ranker_top_n>>

\* ConcSpec: MaxTasks requests of one process, each an ingest_docs call or a
\* document_search call with reranking and a reranker_top_k of 1..MaxTopK,
\* taking their steps in any interleaving; the ranker handle starts with any
\* top_n.  Failing collaborators are followed in Spec.
InitConc ==
    /\ entry = "ingest_docs"
    /\ query \in Queries
    /\ history = <<>>
    /\ kwargs = [enable_reranker |-> TRUE, enable_query_rewriting |-> FALSE,
                 model |-> <<"None">>]
    /\ env = [ENABLE_MULTITURN |-> FALSE, ENABLE_REFLECTION |-> FALSE,
              MAX_REFLECTION_LOOP |-> DefaultMaxReflectionLoop,
              CONVERSATION_HISTORY |-> DefaultConversationHistory,
              ENABLE_NEMOTRON_THINKING |-> FALSE]
    /\ reranker_top_k = MaxDocs /\ vdb_top_k = MaxDocs
    /\ faults = {}
    /\ rank_scores = UniformScores
    /\ verdicts = Verdicts
    /\ Fresh
    /\ TEXT_SPLITTER = 0
    /\ constructed = 0
    /\ ranker_top_n \in 1..MaxTopK
    /\ tasks \in [Tasks -> NewTasks]

NextConc ==
    \/ IngestLoad
    \/ IngestCheck
    \/ IngestConstruct
    \/ IngestAssign
    \/ IngestSplit
    \/ SearchSetup
    \/ SearchSetTopN
    \/ SearchRerank

ConcSpec == InitConc /\ [][NextConc]_vars

\* ------------------------------------------------------------ properties

Reflective == env.ENABLE_REFLECTION

MaxIterations == env.MAX_REFLECTION_LOOP

GenerationOps == {"llm_chain", "rag_chain", "rag_chain_with_multiturn"}

\* the relevance loop has returned with the whole budget used
BudgetExhausted == Reflective /\ obs.rel_done /\ obs.rel_incs = MaxIterations

\* C1: in every state of a reflection-enabled request the budget counter
\* satisfies 0 <= used <= max_iterations, used is the sum of the increments of
\* the two loops, and that sum never exceeds max_iterations.
C1_BudgetNeverExceeded ==
    Reflective =>
        /\ obs.rel_incs + obs.grd_incs <= MaxIterations
        /\ reflection_counter # NoCounter =>
              /\ 0 <= reflection_counter.current_count
              /\ reflection_counter.current_count <= MaxIterations
              /\ reflection_counter.current_count = obs.rel_incs + obs.grd_incs

\* both loops have consumed budget and together they have used all of it
C1_Witness ==
    /\ Reflective
    /\ obs.rel_incs >= 1 /\ obs.grd_incs >= 1
    /\ obs.rel_incs + obs.grd_incs = MaxIterations

\* C2: the groundedness loop is entered only with remaining > 0 after the
\* relevance loop; with remaining = 0 there is no groundedness judgment, no
\* regeneration, and the answer read by the caller is the one first-pass
\* generation, unmodified.
C2_GroundednessOnlyWithBudget ==
    /\ obs.grd_entered => Reflective /\ obs.rel_done /\ obs.rel_incs < MaxIterations
    /\ BudgetExhausted =>
          /\ ~obs.grd_entered
          /\ pc # "groundedness"
          /\ calls.judge_grd = 0
          /\ calls.llm <= 1
          /\ (pc = "done" /\ exc = NoExc /\ op \in GenerationOps) =>
                /\ calls.llm = 1
                /\ ret.shape = "pair" /\ ret.chunks = RetGen
                /\ chunks = <<JsonDumps(obs.first_gen)>>
                /\ obs.first_gen \in ModelAnswers

C2_Witness ==
    /\ pc = "done" /\ op = "rag_chain" /\ exc = NoExc
    /\ BudgetExhausted /\ MaxIterations >= 1
    /\ chunks = <<JsonDumps(obs.first_gen)>>

\* C3: with a relevance judge that never says yes and max_iterations = M, the
\* relevance loop makes exactly M retrieve-and-evaluate attempts, ends with
\* used = M and is_relevant = false, hands back the documents of the most
\* recent retrieval (not an empty context when that retrieval returned
\* documents), and the groundedness loop is skipped.
C3_AlwaysIrrelevant ==
    (Reflective /\ obs.rel_done /\ obs.all_no) =>
        /\ obs.rel_attempts = MaxIterations
        /\ obs.rel_incs = MaxIterations
        /\ calls.judge_rel = MaxIterations
        /\ pc = "generate" =>
              /\ ~is_relevant
              /\ reflection_counter.current_count = MaxIterations
              /\ context_to_show = obs.last_retrieved
        /\ ret.shape = "pair" =>
              /\ ret.context = obs.last_retrieved
              /\ obs.nonempty_seen => ret.context # <<>>
        /\ ret.shape = "list" =>
              /\ ret.docs = obs.last_retrieved
              /\ obs.nonempty_seen => ret.docs # <<>>
        /\ ~obs.grd_entered
        /\ calls.judge_grd = 0

C3_Witness ==
    /\ pc = "done" /\ op = "rag_chain"
    /\ Reflective /\ obs.rel_done /\ obs.all_no
    /\ MaxIterations = DefaultMaxReflectionLoop
    /\ obs.rel_attempts = DefaultMaxReflectionLoop
    /\ ret.shape = "pair" /\ ret.context # <<>>

\* what the caller holds when nothing failed: the chunk it read, or for
\* document_search the list, or for ingest_docs the plain return
Answered ==
    CASE op \in GenerationOps -> chunks # <<>>
      [] op = "document_search" -> ret.shape = "list"
      [] OTHER -> ret.shape = "None"

\* C4: every request terminates, whatever the judges answer, and when no
\* collaborator failed it ends with an answer in the caller's hands.
C4_Terminates == <>(pc = "done" /\ (exc = NoExc => Answered))

\* a request has ended answered although the groundedness loop used up the
\* budget without an answer judged grounded (the warning was logged)
C4_Witness ==
    /\ pc = "done" /\ op \in {"rag_chain", "rag_chain_with_multiturn"}
    /\ Reflective /\ MaxIterations = MaxLoops
    /\ obs.grd_entered /\ obs.grd_incs >= 1
    /\ obs.rel_incs + obs.grd_incs = MaxIterations
    /\ logged /\ exc = NoExc /\ Answered

\* C5: every collaborator failure inside llm_chain, rag_chain or
\* rag_chain_with_multiturn ends in a returned answer object and a logged
\* diagnostic: never None, never an exception leaving the method.
C5_FailureYieldsAnswer ==
    (pc = "done" /\ op \in GenerationOps /\ exc \in Failures) =>
        /\ ret.shape \in {"generator", "iter", "pair"}
        /\ Len(chunks) = 1
        /\ logged

\* the failure classes every generation handler tells apart; a connection
\* failure that is no timeout counts with the unknown failures here
FailureClass(e) ==
    IF e.kind = "ConnectTimeout" THEN "timeout"
    ELSE IF IsAuthError(e) THEN "auth"
    ELSE IF IsNotFound(e) THEN "not-found"
    ELSE "other"

\* C6: the answer of every classified failure in llm_chain, rag_chain and
\* rag_chain_with_multiturn carries a description that explains the failure:
\* never the default description, and not the description the same method
\* gives a failure of another class.
C6_ErrorDescriptionExplains ==
    (pc = "done" /\ op \in GenerationOps /\ exc # NoExc /\ chunks # <<>>) =>
        /\ chunks[1].json.description # DefaultDescription
        /\ \A e \in Failures :
              (FailureClass(e) # FailureClass(exc) /\ Handler(e).ret.shape = "iter") =>
                  Handler(e).ret.items[1].json.description # chunks[1].json.description

\* C7: any failure inside document_search gives the caller the empty list,
\* and nothing is raised out of document_search.
C7_SearchFailureGivesEmptyList ==
    (pc = "done" /\ op = "document_search" /\ exc # NoExc) => ret = RetList(<<>>)

\* the status the classification rule assigns
ExpectedStatus(e) ==
    IF e.kind = "ConnectTimeout" THEN 504
    ELSE IF Contains(e.msg, "[403] Forbidden") /\ Contains(e.msg, "Invalid UAM response")
      THEN 403
    ELSE IF Contains(e.msg, "[404] Not Found") THEN 404
    ELSE 500

C9_VsNoneIsServerError ==
    obs.vs_none =>
        /\ api_error.code = 500
        /\ calls = NoCalls
        /\ pc \in {"done", "returned"}

\* C10: with empty history the retrieval query is the current query, with
\* rewriting enabled or not, in rag_chain_with_multiturn and document_search,
\* and the query rewriter is not called.
C10_EmptyHistoryKeepsQuery ==
    (history = <<>> /\ op \in {"rag_chain_with_multiturn", "document_search"}) =>
        /\ calls.rewriter = 0
        /\ pc \in {"retrieve", "relevance", "generate", "groundedness"} =>
              retriever_query = query
        /\ obs.searched \subseteq {query}

C10_Witness ==
    /\ history = <<>> /\ op = "rag_chain_with_multiturn"
    /\ kwargs.enable_query_rewriting
    /\ obs.searched = {query}
    /\ pc = "done"

\* the user-authored turns of h in their order, each followed by ". ", and
\* then q
RECURSIVE UserTurnsThenQuery(_, _)
UserTurnsThenQuery(h, q) ==
    IF h = <<>> THEN q
    ELSE IF Head(h).role = "user"
      THEN Head(h).content \o <<". ">> \o UserTurnsThenQuery(Tail(h), q)
      ELSE UserTurnsThenQuery(Tail(h), q)

\* C11: with rewriting disabled and a non-empty history, the retrieval query
\* of rag_chain_with_multiturn and of document_search is the user-authored
\* turns of the history, in chronological order and each once, followed by
\* the current query, joined by ". "; assistant and system turns add nothing.
C11_ConcatenatesUserTurns ==
    (/\ op \in {"rag_chain_with_multiturn", "document_search"}
     /\ history # <<>> /\ ~kwargs.enable_query_rewriting
     /\ obs.formulated # <<>>) =>
        obs.formulated[1] = UserTurnsThenQuery(history, query)

\* the last n elements of h, all of h when it has fewer
Suffix(h, n) ==
    LET keep == IF Len(h) < n THEN Len(h) ELSE n
    IN  SubSeq(h, Len(h) - keep + 1, Len(h))

\* C12: for every turn count K >= 0, K = 0 included, the history used after
\* truncation is the suffix of the supplied history of length
\* min(len(history), 2*K).
C12_TruncationKeepsLastTwoK ==
    obs.truncated # <<>> =>
        obs.truncated[1] = Suffix(history, 2 * env.CONVERSATION_HISTORY)

\* the non-system messages of h, as (role, content) pairs in their order
RECURSIVE RolePreserved(_)
RolePreserved(h) ==
    IF h = <<>> THEN <<>>
    ELSE IF Head(h).role = "system" THEN RolePreserved(Tail(h))
    ELSE <<[role |-> Head(h).role, content |-> Head(h).content]>> \o RolePreserved(Tail(h))

\* C17: the prompt built by llm_chain, rag_chain and rag_chain_with_multiturn
\* is: the system instructions, then the primer when the model family has
\* one, then the conversation history in its order with its roles, then the
\* user query; a primer precedes every history message.  (rag_chain is the
\* single-turn pipeline: a prompt of it with no history message is accepted.)
C17_PromptOrder ==
    (op \in GenerationOps /\ obs.message # <<>>) =>
        LET m == obs.message
            primer == IF IsNemotron(kwargs.model) THEN 1 ELSE 0
            used == IF op = "rag_chain_with_multiturn" THEN obs.truncated[1] ELSE history
            between == SubSeq(m, 2 + primer, Len(m) - 1)
        IN  /\ Len(m) >= 2 + primer
            /\ m[1].role = "system"
            /\ primer = 1 =>
                  m[2] \in {[role |-> "user", content |-> t] : t \in {ChatTemplate, RagTemplate}}
            /\ m[Len(m)] = QuestionMessage
            /\ \/ between = RolePreserved(used)
               \/ op = "rag_chain" /\ between = <<>>

\* the rewriter answered nothing, or the empty-quoted placeholder
NoActionableQuery(t) == t = <<>> \/ t = <<"\"\"">> \/ t = <<"''">>

EmptyRewrite == obs.rewrites # <<>> /\ NoActionableQuery(obs.rewrites[1])

\* C13: when the rewritten query is empty or the empty-quoted placeholder,
\* document_search returns [] and the retriever, the reranker and the
\* relevance loop are never invoked for the request.
C13_EmptyRewriteSearchesNothing ==
    (op = "document_search" /\ EmptyRewrite) =>
        /\ pc = "done"
        /\ ret = RetList(<<>>)
        /\ exc = NoExc
        /\ calls.search = 0 /\ calls.rerank = 0 /\ calls.judge_rel = 0
        /\ obs.searched = {} /\ obs.rel_attempts = 0

\* the placeholder came back on a request with reflection and reranker on
C13_Witness ==
    /\ op = "document_search" /\ pc = "done"
    /\ obs.rewrites = << <<"\"\"">> >>
    /\ Reflective /\ kwargs.enable_reranker
    /\ ret = RetList(<<>>)

\* chunk c is a serialized StructuredAnswer: the dump of an object with the
\* three fields
IsSerializedAnswer(c) ==
    /\ DOMAIN c = {"json"}
    /\ DOMAIN c.json = {"title", "description", "parameters"}

\* C14: when the rewritten query is empty or the empty-quoted placeholder,
\* rag_chain_with_multiturn does not query the vector store and returns an
\* empty-context answer: one well-formed StructuredAnswer.
C14_EmptyRewriteGivesEmptyContextAnswer ==
    (op = "rag_chain_with_multiturn" /\ EmptyRewrite /\ pc = "done") =>
        /\ calls.search = 0
        /\ Len(chunks) = 1
        /\ IsSerializedAnswer(chunks[1])

\* C15: llm_chain performs no retrieval, reranking, query rewriting or
\* reflection step; its only outbound call is one language-model generation,
\* and the answer is the model's output, built with no context documents.
C15_LlmChainGeneratesOnly ==
    op = "llm_chain" =>
        /\ calls.search = 0 /\ calls.rerank = 0 /\ calls.rewriter = 0
        /\ calls.judge_rel = 0 /\ calls.judge_grd = 0
        /\ calls.llm <= 1
        /\ obs.searched = {} /\ obs.rewrites = <<>> /\ obs.rel_attempts = 0
        /\ ~obs.grd_entered
        /\ reflection_counter = NoCounter
        /\ context_to_show = <<>>
        /\ (pc = "done" /\ exc = NoExc) =>
              /\ calls.llm = 1
              /\ ret = RetGen
              /\ obs.first_gen \in ModelAnswers
              /\ chunks = <<JsonDumps(obs.first_gen)>>

C15_Witness ==
    /\ op = "llm_chain" /\ pc = "done" /\ exc = NoExc
    /\ history # <<>>
    /\ calls.llm = 1
    /\ chunks = <<JsonDumps(obs.first_gen)>>

\* the texts a final_response can be
CandidateTexts == {StrOf(a) : a \in ModelAnswers} \cup RegeneratedTexts

\* what the running method returns for a candidate accepted as grounded
GroundedAnswers == {JsonDumps(ReflectedAnswer(t)) : t \in CandidateTexts}

\* text ends with tail
EndsWith(text, tail) ==
    /\ Len(text) >= Len(tail)
    /\ SubSeq(text, Len(text) - Len(tail) + 1, Len(text)) = tail

\* C16: when the groundedness loop ends on an exhausted budget with
\* is_grounded = false, the last candidate answer is still returned, and it
\* is marked as not fully verified: it differs from every answer returned
\* for a candidate accepted as grounded.
C16_UnverifiedAnswerIsMarked ==
    (pc = "done" /\ obs.grd_done /\ ~obs.is_grounded /\ exc = NoExc) =>
        /\ Len(chunks) = 1
        /\ IsSerializedAnswer(chunks[1])
        /\ EndsWith(chunks[1].json.description, obs.final_response)
        /\ chunks[1] \notin GroundedAnswers

\* C18: on a request without reflection (llm_chain, and rag_chain /
\* rag_chain_with_multiturn with reflection disabled or no budget left) the
\* language model is invoked at most once, and a failed invocation is not
\* retried but turned into a single error answer.
C18_OneGenerationAttempt ==
    (op \in GenerationOps /\ (~Reflective \/ BudgetExhausted)) =>
        /\ calls.llm <= 1
        /\ (pc = "done" /\ calls.llm = 1 /\ exc # NoExc) =>
              /\ Len(chunks) = 1
              /\ IsSerializedAnswer(chunks[1])
              /\ chunks[1] = JsonDumps(GenerationErrorAnswer(exc))
              /\ logged

\* the one generation of a request whose relevance loop used the whole
\* budget failed, and the caller read the error answer
C18_Witness ==
    /\ op = "rag_chain_with_multiturn" /\ pc = "done"
    /\ BudgetExhausted /\ MaxIterations >= 1
    /\ calls.llm = 1 /\ exc # NoExc
    /\ Len(chunks) = 1

\* C19: the chunk sequence returned by llm_chain, rag_chain and
\* rag_chain_with_multiturn yields exactly one element on every branch, the
\* serialized StructuredAnswer.
C19_OneChunkOnEveryBranch ==
    (pc = "done" /\ op \in GenerationOps) =>
        /\ ret.shape \in {"generator", "iter", "pair"}
        /\ Len(chunks) = 1
        /\ IsSerializedAnswer(chunks[1])

\* C20: document_search retrieves, and evaluates relevance, with the
\* formulated retrieval query, with reflection enabled as well as disabled.
C20_SearchUsesFormulatedQuery ==
    (op = "document_search" /\ obs.formulated # <<>>) =>
        obs.searched \subseteq {obs.formulated[1]}

\* ------------------------------------------------------------ C21

\* C21: document_search never calls the response generator and never enters
\* the groundedness loop; with reflection enabled it runs the relevance loop
\* only and returns the documents that loop handed back, whatever budget is
\* left.
C21_DocumentSearchNeverGenerates ==
    op = "document_search" =>
        /\ calls.llm = 0
        /\ calls.judge_grd = 0
        /\ ~obs.grd_entered
        /\ pc \notin {"generate", "groundedness"}
        /\ (Reflective /\ obs.rel_done /\ pc = "done" /\ exc = NoExc) =>
              ret = RetList(obs.last_retrieved)

\* a document search with reflection whose relevance loop left with budget to
\* spare and whose documents came back
C21_Witness ==
    /\ op = "document_search" /\ Reflective /\ pc = "done"
    /\ obs.rel_done /\ obs.rel_incs < MaxIterations
    /\ ret.shape = "list" /\ ret.docs # <<>>

\* ------------------------------------------------------------ C29

\* C29: every return path of rag_chain and rag_chain_with_multiturn returns
\* the same shape, the pair (chunk sequence, retrieved context): the
\* empty-rewrite path and the failure handlers as much as the success path.
C29_AlwaysReturnsPair ==
    (op \in {"rag_chain", "rag_chain_with_multiturn"} /\ pc \in {"returned", "done"}) =>
        ret.shape = "pair"

\* ------------------------------------------------------------ C22

\* fractions, compared by cross-multiplication (denominators are positive)
FracLeq(a, b) == a.num * b.den <= b.num * a.den

FracEq(a, b) == a.num * b.den = b.num * a.den

RawsOf(docs) == {docs[i].raw : i \in 1..Len(docs)}

\* the list carries min-max scaled scores of its raw scores: the least raw
\* score at 0, the greatest at 1, the others linearly in between, all at 1 when
\* the raw scores are equal; every score within [0, 1]; a document with a
\* higher raw score has a higher score, and the list is still in the ranker's
\* order, best first
MinMaxScaled(docs) ==
    \A i \in 1..Len(docs) :
        LET d == docs[i]
            lo == CHOOSE m \in RawsOf(docs) : \A r \in RawsOf(docs) : m <= r
            hi == CHOOSE m \in RawsOf(docs) : \A r \in RawsOf(docs) : r <= m
        IN  /\ d.score.den > 0
            /\ 0 <= d.score.num /\ d.score.num <= d.score.den
            /\ IF lo = hi
                 THEN d.score.num = d.score.den
                 ELSE d.score.num * (hi - lo) = (d.raw - lo) * d.score.den
            /\ \A j \in (i + 1)..Len(docs) :
                 /\ docs[j].raw <= d.raw
                 /\ FracLeq(docs[j].score, d.score)
                 /\ docs[j].raw < d.raw => ~FracEq(docs[j].score, d.score)

IsRerankedList(docs) == docs # <<>> /\ \A i \in 1..Len(docs) : docs[i].reranked

\* the document lists a request holds, returns or uses as generation context
ListsInUse ==
    {obs.last_retrieved, context_to_show}
        \cup (IF ret.shape = "list" THEN {ret.docs} ELSE {})
        \cup (IF ret.shape = "pair" THEN {ret.context} ELSE {})

\* C22: the scores of a reranked list are min-max normalized ([2, 4, 6] gives
\* [0.0, 0.5, 1.0], all-equal raw scores give 1.0 each without a division by
\* zero), every output lies in [0, 1], the ranking order is kept, and this
\* holds of every reranked list before it is returned or used as context.
C22_RerankedScoresAreNormalized ==
    \A docs \in ListsInUse : IsRerankedList(docs) => MinMaxScaled(docs)

\* the ranker scored three documents 2, 4 and 6: they come back best first
\* with the scores 1, 1/2 and 0
C22_Witness ==
    /\ op = "rag_chain" /\ pc = "generate"
    /\ Len(context_to_show) = 3
    /\ <<context_to_show[1].raw, context_to_show[2].raw, context_to_show[3].raw>> = <<6, 4, 2>>
    /\ <<context_to_show[1].id, context_to_show[2].id, context_to_show[3].id>> = <<3, 2, 1>>
    /\ FracEq(context_to_show[1].score, [num |-> 1, den |-> 1])
    /\ FracEq(context_to_show[2].score, [num |-> 1, den |-> 2])
    /\ FracEq(context_to_show[3].score, [num |-> 0, den |-> 1])

\* three documents with equal raw scores: each one gets 1
C22_WitnessAllEqual ==
    /\ op = "document_search" /\ pc = "done" /\ ret.shape = "list"
    /\ Len(ret.docs) = 3
    /\ \A i \in 1..3 : ret.docs[i].raw = ret.docs[1].raw /\ ret.docs[i].score = ScoreOf(1)

\* ------------------------------------------------------------ C26

\* the reranker is in use: a ranker handle exists and enable_reranker is set
RerankerInUse == ranker = "handle" /\ kwargs.enable_reranker

\* a retrieval of a non-reflection branch has happened
RetrievedDirectly == ~Reflective /\ calls.search > 0

\* C26: the retriever's k is vdb_top_k exactly when a ranker handle exists and
\* enable_reranker is set, otherwise reranker_top_k; in every non-reflection
\* branch the final list handed onward has at most reranker_top_k documents,
\* and with reranking disabled it is the store's own top-k list.
C26_TopKSelection ==
    /\ ranker # "unset" =>
          obs.top_k = <<IF RerankerInUse THEN vdb_top_k ELSE reranker_top_k>>
    /\ (RetrievedDirectly /\ exc = NoExc) =>
          /\ Len(obs.from_store) <= obs.top_k[1]
          /\ Len(obs.last_retrieved) <= reranker_top_k
          /\ pc = "generate" => context_to_show = obs.last_retrieved
          /\ ret.shape = "list" => ret.docs = obs.last_retrieved
          /\ ret.shape = "pair" => ret.context = obs.last_retrieved
          /\ ~kwargs.enable_reranker => obs.last_retrieved = obs.from_store

\* the store gave more documents than reranker_top_k and the reranker cut the
\* list down to reranker_top_k
C26_Witness ==
    /\ RetrievedDirectly /\ kwargs.enable_reranker /\ vdb_top_k > reranker_top_k
    /\ Len(obs.from_store) > reranker_top_k
    /\ Len(obs.last_retrieved) = reranker_top_k
    /\ pc = "generate" /\ context_to_show = obs.last_retrieved

\* with reranking disabled and vdb_top_k above reranker_top_k the store's list
\* of reranker_top_k documents is the returned set
C26_WitnessDisabled ==
    /\ RetrievedDirectly /\ ~kwargs.enable_reranker /\ vdb_top_k > reranker_top_k
    /\ op = "document_search" /\ ret.shape = "list"
    /\ Len(ret.docs) = reranker_top_k /\ ret.docs = obs.from_store

\* ------------------------------------------------------------ C24

\* the contents of the system-role turns of h in their order, a blank before each
RECURSIVE SystemTurnsText(_)
SystemTurnsText(h) ==
    IF h = <<>> THEN <<>>
    ELSE IF Head(h).role = "system"
      THEN <<" ">> \o Head(h).content \o SystemTurnsText(Tail(h))
      ELSE SystemTurnsText(Tail(h))

\* the system instructions before anything of the history is added
InstructionsOf(method) ==
    BaseSystemPrompt(IF method = "llm_chain" THEN ChatTemplate ELSE RagTemplate,
                     kwargs.model, env.ENABLE_NEMOTRON_THINKING)

\* C24: every system-role turn of the supplied history is folded into the
\* system instructions, in chronological order, and nothing else of the
\* history is; no system-role message stands in the history part of the prompt
\* or in the history given to the query rewriter.
C24_SystemTurnsFolded ==
    /\ (op \in GenerationOps /\ obs.message # <<>>) =>
          /\ obs.message[1] =
                [role |-> "system",
                 content |-> InstructionsOf(op) \o SystemTurnsText(history)]
          /\ \A i \in 2..Len(obs.message) : obs.message[i].role # "system"
    /\ obs.rewriter_history # <<>> =>
          \A i \in 1..Len(obs.rewriter_history[1]) :
              obs.rewriter_history[1][i].role # "system"

\* ------------------------------------------------------------ C25

\* w is what is left of the last n messages of h when the system-role turns
\* are taken out, for some n
IsTrailingWindow(w, h) ==
    \E n \in 0..Len(h) : w = RolePreserved(Suffix(h, n))

\* C25: with rewriting enabled the history given to the query rewriter is a
\* trailing window of the most recent messages, of at most N = 2*K messages
\* and always of an even number of them.
C25_RewriterWindowIsEven ==
    obs.rewriter_history # <<>> =>
        LET w == obs.rewriter_history[1]
        IN  /\ IsTrailingWindow(w, history)
            /\ Len(w) <= 2 * env.CONVERSATION_HISTORY
            /\ Len(w) % 2 = 0

\* ------------------------------------------------------------ C30

\* C30: with rewriting disabled, document_search and rag_chain_with_multiturn
\* compute the same retrieval query from the same query, history and
\* configuration: both collect the user turns of the history cut to its last
\* 2*K messages, whatever the length of the history.
C30_SameRetrievalQuery ==
    (/\ op \in {"rag_chain_with_multiturn", "document_search"}
     /\ ~kwargs.enable_query_rewriting
     /\ obs.formulated # <<>>) =>
        obs.formulated[1] =
            UserTurnsThenQuery(Suffix(history, 2 * env.CONVERSATION_HISTORY), query)

\* ------------------------------------------------------------ C23

\* under JudgeSpec a judgment that did not say "yes" failed: the relevance
\* loop made more attempts than the one a "yes" ends it with, or the
\* groundedness loop counted more judgments than the one "yes" it ends with
JudgmentFailed ==
    /\ verdicts = {"yes", "failed"}
    /\ \/ obs.rel_attempts > (IF obs.all_no THEN 0 ELSE 1)
       \/ obs.grd_incs > (IF obs.grd_done /\ obs.is_grounded THEN 1 ELSE 0)

\* C23: a relevance or groundedness judgment that fails inside a reflection
\* loop is not fatal: it consumes one budget unit like any other judgment, the
\* loop goes on or exits with the budget used up, no error is raised, and the
\* request ends with an answer built from the best context and, where the
\* groundedness loop ran, from its last candidate.
C23_FailedJudgmentIsRetried ==
    (JudgmentFailed /\ exc = NoExc) =>
        /\ obs.rel_incs = calls.judge_rel /\ obs.grd_incs = calls.judge_grd
        /\ obs.rel_incs + obs.grd_incs <= MaxIterations
        /\ (obs.rel_done /\ obs.all_no) => obs.rel_incs = MaxIterations
        /\ (obs.grd_done /\ ~obs.is_grounded) =>
              obs.rel_incs + obs.grd_incs = MaxIterations
        /\ ret.shape \notin {"raise", "None"}
        /\ pc = "done" =>
              IF op = "document_search"
                THEN ret = RetList(obs.last_retrieved)
                ELSE /\ ret.shape = "pair" /\ ret.context = obs.last_retrieved
                     /\ Len(chunks) = 1
                     /\ IsSerializedAnswer(chunks[1])
                     /\ IF obs.grd_done
                          THEN EndsWith(chunks[1].json.description, obs.final_response)
                          ELSE chunks[1] = JsonDumps(obs.first_gen)

\* ------------------------------------------------------------ C27

\* the ingest_docs calls that have split their documents
Splitting == {t \in DOMAIN tasks : tasks[t].kind = "ingest_docs" /\ tasks[t].used # 0}

\* C27: in any interleaving of two or more ingest_docs calls the text
\* splitter is constructed exactly once, is never replaced afterwards, and
\* every call uses that one instance.
C27_TextSplitterBuiltOnce ==
    /\ constructed <= 1
    /\ Splitting # {} => constructed = 1
    /\ \A t \in Splitting : tasks[t].used = 1
    /\ TEXT_SPLITTER \in {0, 1}

\* ------------------------------------------------------------ C28

\* the document_search calls that have returned
Searched == {t \in DOMAIN tasks : tasks[t].kind = "document_search" /\ tasks[t].pc = "done"}

\* C28: in any interleaving of document_search requests that share one ranker
\* handle, each request's reranked result is cut to its own reranker_top_k:
\* no request's rerank call sees the top_n another request wrote.
C28_OwnRerankerTopK ==
    \A t \in Searched : Len(tasks[t].docs) = tasks[t].reranker_top_k

\* ------------------------------------------------------------ C31

\* text stands somewhere in one of the fields of the answer
Carries(answer, text) ==
    \E f \in DOMAIN answer :
        \E i \in 0..Len(answer[f]) : EndsWith(SubSeq(answer[f], 1, i), text)

\* C31: whenever the groundedness loop has run, the StructuredAnswer returned
\* to the caller carries the final response text of that loop, in rag_chain
\* and in rag_chain_with_multiturn alike; it is never the default description
\* in its place.
C31_AnswerCarriesFinalResponse ==
    (/\ op \in {"rag_chain", "rag_chain_with_multiturn"}
     /\ obs.grd_done /\ exc = NoExc /\ ret.shape = "pair") =>
        /\ ret.chunks.shape = "iter"
        /\ IsSerializedAnswer(ret.chunks.items[1])
        /\ obs.final_response # <<>>
        /\ Carries(ret.chunks.items[1].json, obs.final_response)
        /\ ret.chunks.items[1].json.description # DefaultDescription

====
